---- MODULE Spec2Model ----
(***************************************************************************)
(* State machine of the NftGallery component (src/src/NftGallery.tsx):     *)
(* the paginated asset loader, the showcase filter and the render surface  *)
(* that raises the next-page signals; LightboxSpec adds the keyboard       *)
(* navigation of the lightbox.                                             *)
(*                                                                         *)
(* One action is one event of the component: a prop change by the parent,  *)
(* an InView/onClick callback, or the continuation of loadAssets after one *)
(* of its awaits.  Each action includes the render it causes and the       *)
(* useEffect callbacks whose dependencies changed in that render.          *)
(***************************************************************************)
EXTENDS Integers, Sequences, FiniteSets, TLC

\* ---------------------------------------------------------------- bounds

\* Loads (calls of loadAssets) issued in one behaviour, the mount's included.
MaxLoads == 3

\* Largest lightboxIndex a behaviour reaches by ArrowRight presses.
MaxLightboxIndex == 3

\* ------------------------------------------------------------- constants

\* Page size shared by the API and the gallery (20 in production; the model
\* is parametric in it and is checked with a page of two assets).
OPENSEA_API_OFFSET == 2

\* `showcaseItemIds` not passed (undefined).
Absent == [isArray |-> FALSE, items |-> <<>>]

\* `showcaseItemIds` passed as an array.
ArrayOf(items) == [isArray |-> TRUE, items |-> items]

\* Values of the `ownerAddress` prop.
Owners == {"0x1", "vitalik.eth"}

\* Values of the `showcaseItemIds` prop when it is an array: ids of assets
\* of both owners, named against the order in which the API lists them.
IdLists == { ArrayOf(<<"0xa/10", "0xa/2", "0xb/1">>) }

\* ------------------------------------------------------- external calls

\* isEnsDomain of ./utils: the owner is a human-readable name.
isEnsDomain(owner) == owner \in {"vitalik.eth"}

\* resolveEnsDomain of ./api, when it succeeds.
resolveEnsDomain(owner) == IF owner = "vitalik.eth" THEN "0x2" ELSE owner

\* First asset id of an owner's collection on the API.
OwnerBase(address) == IF address = "0x1" THEN 0 ELSE 10

\* The n-th asset (from 0) the API lists for an owner, as an OpenseaAsset.
ApiAsset(address, n) ==
    [ id             |-> OwnerBase(address) + n,
      asset_contract |-> [address |-> IF n % 2 = 0 THEN "0xa" ELSE "0xb"],
      token_id       |-> OwnerBase(address) + n ]

\* A page of len assets returned by fetchOpenseaAssets for an owner at an
\* offset.  fetchOpenseaAssetsByContract, which loadAssets calls instead
\* when contractAddress is passed, has the same paging contract and its
\* result is handled by the same statements, so the model has the one call.
ApiPage(address, offset, len) ==
    [k \in 1..len |-> ApiAsset(address, offset + k - 1)]

\* ----------------------------------------------------------------- state

\* The props and the state that an effect, a callback or a condition of the
\* render reads.  darkMode, metadataIsVisible, hasLightbox, hasExternalLinks,
\* isInline and the three style overrides are only passed on as attributes
\* of the rendered elements: a change of one of them is a render in which no
\* effect runs, a step that leaves every variable below as it is.

VARIABLES
    ownerAddress,       \* prop
    showcaseMode,       \* prop
    showcaseItemIds,    \* prop: Absent or ArrayOf(ids)
    hasLoadMoreButton,  \* prop
    assets,             \* useState: accumulated list
    showcaseAssets,     \* useState
    currentOffset,      \* useState
    canLoadMore,        \* useState
    isLoading,          \* useState
    loads,              \* calls of loadAssets in issue order, with their progress
    inViewFired,        \* ids of the mounted InView wrappers that have triggered
    lightboxIndex,      \* useState
    hash                \* window.location.hash

props == <<ownerAddress, showcaseMode,
           showcaseItemIds, hasLoadMoreButton>>
vars == <<ownerAddress, showcaseMode,
          showcaseItemIds, hasLoadMoreButton, assets, showcaseAssets,
          currentOffset, canLoadMore, isLoading, loads, inViewFired,
          lightboxIndex, hash>>
lightbox == <<lightboxIndex, hash>>

\* ------------------------------------------------------------- operators

\* const displayedAssets = showcaseMode ? showcaseAssets : assets
displayedAssetsOf(mode, showcase, all) == IF mode THEN showcase ELSE all

displayedAssets == displayedAssetsOf(showcaseMode, showcaseAssets, assets)

\* `${asset.asset_contract.address}/${asset.token_id}`
ItemId(asset) == asset.asset_contract.address \o "/" \o ToString(asset.token_id)

\* itemIds.includes(id)
includes(itemIds, id) == \E k \in 1..Len(itemIds) : itemIds[k] = id

\* Mutant of updateShowcaseAssets: the matches are collected id by id, in
\* the order of itemIds.
RECURSIVE updateShowcaseAssets_IdOrder(_, _)
updateShowcaseAssets_IdOrder(allAssets, itemIds) ==
    IF Len(itemIds) = 0 THEN <<>>
    ELSE SelectSeq(allAssets, LAMBDA asset : ItemId(asset) = Head(itemIds))
         \o updateShowcaseAssets_IdOrder(allAssets, Tail(itemIds))

\* updateShowcaseAssets: the value it passes to setShowcaseAssets.
updateShowcaseAssets(allAssets, itemIds) ==
    SelectSeq(allAssets, LAMBDA asset : includes(itemIds, ItemId(asset)))

\* useEffect(..., [assets, showcaseMode, showcaseItemIds]): showcaseAssets
\* after the effect has run against the rendered values.
ShowcaseEffect(allAssets, mode, itemIds, prevShowcase) ==
    IF Len(allAssets) # 0 /\ mode /\ itemIds.isArray
    THEN updateShowcaseAssets(allAssets, itemIds.items)
    ELSE prevShowcase

\* isLastItemInPage, for the item at position k (1-based: k = index + 1).
isLastItemInPage(k) == k % OPENSEA_API_OFFSET = 0

\* Ids of the items that the render wraps in <InView>.
SentinelIds(displayed) ==
    { displayed[k].id : k \in { j \in 1..Len(displayed) : isLastItemInPage(j) } }

\* InView wrappers that stay mounted (and keep their triggerOnce state)
\* across a render: the loader replaces the whole grid, and an item that is
\* no longer a last-in-page item is rendered without wrapper.
StillMounted(fired, loading, displayed) ==
    IF loading THEN {} ELSE fired \cap SentinelIds(displayed)

\* Loads whose promise is still pending.
InFlight == { i \in 1..Len(loads) : loads[i].phase \in {"resolving", "fetching"} }

\* Mutant of NextCanLoadMore: any non-empty page counts as "more to load".
NextCanLoadMore_NonEmpty(rawAssets) == Len(rawAssets) > 0

\* setCanLoadMore(rawAssets.length === OPENSEA_API_OFFSET)
NextCanLoadMore(rawAssets) == Len(rawAssets) = OPENSEA_API_OFFSET

\* Mutant of LoadingAtStart: the loader is shown for every load.
LoadingAtStart_Always(closureAssets, loading) == TRUE

\* if (assets.length === 0) setIsLoading(true)
LoadingAtStart(closureAssets, loading) ==
    IF Len(closureAssets) = 0 THEN TRUE ELSE loading

\* Mutant of NewLoad: the name resolution is not awaited, the page request
\* goes out at once with the owner as passed.
NewLoad_NoResolve(owner, offset, closureAssets) ==
    [ ownerAddress    |-> owner,
      offset          |-> offset,
      wasEmpty        |-> Len(closureAssets) = 0,
      phase           |-> "fetching",
      resolvedOwner   |-> owner,
      rawAssets       |-> <<>> ]

\* loadAssets up to its first await: the pending call it leaves behind.
NewLoad(owner, offset, closureAssets) ==
    [ ownerAddress    |-> owner,
      offset          |-> offset,
      wasEmpty        |-> Len(closureAssets) = 0,
      phase           |-> IF isEnsDomain(owner) THEN "resolving" ELSE "fetching",
      resolvedOwner   |-> IF isEnsDomain(owner) THEN "" ELSE owner,
      rawAssets       |-> <<>> ]

\* useEffect(() => loadAssets(ownerAddress, contractAddress, devnet,
\* currentOffset), [ownerAddress, currentOffset]) firing in a render with the
\* given owner and offset.
LoadEffect(owner, offset) ==
    /\ Len(loads) < MaxLoads
    /\ loads' = Append(loads, NewLoad(owner, offset, assets))
    /\ isLoading' = LoadingAtStart(assets, isLoading)

\* ------------------------------------------------------------------ init

\* The component after its first render and the effects of the mount.
Mounted ==
    /\ ownerAddress \in Owners
    /\ showcaseMode = FALSE
    /\ showcaseItemIds = Absent
    /\ hasLoadMoreButton = FALSE
    /\ assets = <<>>
    /\ showcaseAssets = <<>>
    /\ currentOffset = 0
    /\ canLoadMore = FALSE
    /\ isLoading = LoadingAtStart(<<>>, FALSE)
    /\ loads = << NewLoad(ownerAddress, 0, <<>>) >>
    /\ inViewFired = {}
    /\ lightboxIndex = 0

\* The component mounted on a page whose URL carries no fragment.
Init == Mounted /\ hash = ""

\* ---------------------------------------------------------- prop changes

\* The parent passes another ownerAddress: the load effect fires.
ChangeOwner(owner) ==
    /\ owner # ownerAddress
    /\ ownerAddress' = owner
    /\ LoadEffect(owner, currentOffset)
    /\ inViewFired' = StillMounted(inViewFired, isLoading', displayedAssets)
    /\ UNCHANGED <<lightbox, showcaseMode, showcaseItemIds,
                   hasLoadMoreButton, assets, showcaseAssets, currentOffset,
                   canLoadMore>>

ToggleHasLoadMoreButton ==
    /\ hasLoadMoreButton' = ~hasLoadMoreButton
    /\ UNCHANGED <<lightbox, ownerAddress, showcaseMode,
                   showcaseItemIds, assets, showcaseAssets, currentOffset,
                   canLoadMore, isLoading, loads, inViewFired>>

\* Mutant of ToggleShowcaseMode: showcaseMode is among the dependencies of
\* the load effect, so the change reloads the current page.
ToggleShowcaseMode_Reloads ==
    /\ showcaseMode' = ~showcaseMode
    /\ LoadEffect(ownerAddress, currentOffset)
    /\ showcaseAssets' = ShowcaseEffect(assets, showcaseMode', showcaseItemIds,
                                        showcaseAssets)
    /\ inViewFired' = StillMounted(inViewFired, isLoading',
                         displayedAssetsOf(showcaseMode', showcaseAssets', assets))
    /\ UNCHANGED <<lightbox, ownerAddress, showcaseItemIds,
                   hasLoadMoreButton, assets, currentOffset, canLoadMore>>

\* showcaseMode changes: the showcase effect runs, the grid shows the other list.
ToggleShowcaseMode ==
    /\ showcaseMode' = ~showcaseMode
    /\ showcaseAssets' = ShowcaseEffect(assets, showcaseMode', showcaseItemIds,
                                        showcaseAssets)
    /\ inViewFired' = StillMounted(inViewFired, isLoading,
                         displayedAssetsOf(showcaseMode', showcaseAssets', assets))
    /\ UNCHANGED <<lightbox, ownerAddress, showcaseItemIds,
                   hasLoadMoreButton, assets, currentOffset, canLoadMore,
                   isLoading, loads>>

\* showcaseItemIds changes (to another array, or to undefined).
SetShowcaseItemIds(itemIds) ==
    /\ itemIds # showcaseItemIds
    /\ showcaseItemIds' = itemIds
    /\ showcaseAssets' = ShowcaseEffect(assets, showcaseMode, itemIds,
                                        showcaseAssets)
    /\ inViewFired' = StillMounted(inViewFired, isLoading,
                         displayedAssetsOf(showcaseMode, showcaseAssets', assets))
    /\ UNCHANGED <<lightbox, ownerAddress, showcaseMode,
                   hasLoadMoreButton, assets, currentOffset, canLoadMore,
                   isLoading, loads>>

\* ------------------------------------------------------ next-page signals

\* The grid (and with it every InView and the button) is rendered.
GridRendered == ~isLoading

\* Mutant of AdvanceOffset: the cursor counts pages, not assets.
AdvanceOffset_ByOne ==
    /\ currentOffset' = currentOffset + 1
    /\ LoadEffect(ownerAddress, currentOffset')

\* setCurrentOffset((prevOffset) => prevOffset + OPENSEA_API_OFFSET), the
\* render it causes and the load effect of that render.
AdvanceOffset ==
    /\ currentOffset' = currentOffset + OPENSEA_API_OFFSET
    /\ LoadEffect(ownerAddress, currentOffset')

\* Mutant of SentinelInView: the callback does not look at hasLoadMoreButton.
SentinelInView_AnyMode(k) ==
    /\ GridRendered
    /\ k \in 1..Len(displayedAssets)
    /\ isLastItemInPage(k)
    /\ displayedAssets[k].id \notin inViewFired
    /\ AdvanceOffset
    /\ inViewFired' = StillMounted(inViewFired \cup {displayedAssets[k].id},
                                   isLoading', displayedAssets)
    /\ UNCHANGED <<lightbox, props, assets, showcaseAssets, canLoadMore>>

\* InView.onChange(true) of the last-in-page item at position k, with
\* infinite scroll on.
SentinelInView(k) ==
    /\ GridRendered
    /\ k \in 1..Len(displayedAssets)
    /\ isLastItemInPage(k)
    /\ displayedAssets[k].id \notin inViewFired
    /\ ~hasLoadMoreButton
    /\ AdvanceOffset
    /\ inViewFired' = StillMounted(inViewFired \cup {displayedAssets[k].id},
                                   isLoading', displayedAssets)
    /\ UNCHANGED <<lightbox, props, assets, showcaseAssets, canLoadMore>>

\* Two last-in-page items (positions k1 < k2) enter view together: the
\* observer reports both in one callback, the two setCurrentOffset updates
\* are applied in one render (React batches them), and the load effect of
\* that render runs once, with the cursor two pages on.
SentinelsInViewTogether(k1, k2) ==
    /\ GridRendered
    /\ k1 \in 1..Len(displayedAssets) /\ k2 \in 1..Len(displayedAssets)
    /\ k1 < k2
    /\ isLastItemInPage(k1) /\ isLastItemInPage(k2)
    /\ displayedAssets[k1].id \notin inViewFired
    /\ displayedAssets[k2].id \notin inViewFired
    /\ displayedAssets[k1].id # displayedAssets[k2].id
    /\ ~hasLoadMoreButton
    /\ currentOffset' = currentOffset + OPENSEA_API_OFFSET + OPENSEA_API_OFFSET
    /\ LoadEffect(ownerAddress, currentOffset')
    /\ inViewFired' = StillMounted(inViewFired \cup {displayedAssets[k1].id,
                                                      displayedAssets[k2].id},
                                   isLoading', displayedAssets)
    /\ UNCHANGED <<lightbox, props, assets, showcaseAssets, canLoadMore>>

\* InView.onChange(true) while the load-more button replaces infinite
\* scroll: the callback does nothing, triggerOnce still uses the wrapper up.
SentinelInViewIgnored(k) ==
    /\ GridRendered
    /\ k \in 1..Len(displayedAssets)
    /\ isLastItemInPage(k)
    /\ displayedAssets[k].id \notin inViewFired
    /\ hasLoadMoreButton
    /\ inViewFired' = inViewFired \cup {displayedAssets[k].id}
    /\ UNCHANGED <<lightbox, props, assets, showcaseAssets, currentOffset, canLoadMore,
                   isLoading, loads>>

\* The LoadMoreButton is rendered.
LoadMoreButtonShown == GridRendered /\ hasLoadMoreButton /\ canLoadMore

\* LoadMoreButton.onClick
LoadMoreClick ==
    /\ LoadMoreButtonShown
    /\ AdvanceOffset
    /\ inViewFired' = StillMounted(inViewFired, isLoading', displayedAssets)
    /\ UNCHANGED <<lightbox, props, assets, showcaseAssets, canLoadMore>>

\* ------------------------------------------------ loadAssets continuations

\* await resolveEnsDomain(ownerAddress) resolves: the page request goes out.
ResolveDone(i) ==
    /\ i \in 1..Len(loads)
    /\ loads[i].phase = "resolving"
    /\ loads' = [loads EXCEPT ![i].phase = "fetching",
                              ![i].resolvedOwner = resolveEnsDomain(loads[i].ownerAddress)]
    /\ UNCHANGED <<lightbox, props, assets, showcaseAssets, currentOffset, canLoadMore,
                   isLoading, inViewFired>>

\* Mutant of LoadFailed: the rejection is caught and the loader taken down.
LoadFailed_ClearsLoading(i) ==
    /\ loads' = [loads EXCEPT ![i].phase = "failed"]
    /\ isLoading' = FALSE
    /\ UNCHANGED <<lightbox, props, assets, showcaseAssets, currentOffset, canLoadMore,
                   inViewFired>>

\* Mutant of LoadFailed: the rejection is caught, the cursor is moved back
\* to the page before and the button is taken away.
LoadFailed_RollsBack(i) ==
    /\ loads' = [loads EXCEPT ![i].phase = "failed"]
    /\ currentOffset' = IF currentOffset >= OPENSEA_API_OFFSET
                        THEN currentOffset - OPENSEA_API_OFFSET ELSE 0
    /\ canLoadMore' = FALSE
    /\ UNCHANGED <<lightbox, props, assets, showcaseAssets, isLoading, inViewFired>>

\* An await of load i rejects: loadAssets ends there, no state is set.
LoadFailed(i) ==
    /\ loads' = [loads EXCEPT ![i].phase = "failed"]
    /\ UNCHANGED <<lightbox, props, assets, showcaseAssets, currentOffset, canLoadMore,
                   isLoading, inViewFired>>

ResolveFail(i) ==
    /\ i \in 1..Len(loads)
    /\ loads[i].phase = "resolving"
    /\ LoadFailed(i)

FetchFail(i) ==
    /\ i \in 1..Len(loads)
    /\ loads[i].phase = "fetching"
    /\ LoadFailed(i)

\* Mutant of PageFetched: the loader is not taken down.
PageFetched_KeepsLoader(i, rawAssets) ==
    /\ assets' = assets \o rawAssets
    /\ canLoadMore' = NextCanLoadMore(rawAssets)
    /\ loads' = [loads EXCEPT ![i].phase = "done", ![i].rawAssets = rawAssets]
    /\ showcaseAssets' = ShowcaseEffect(assets', showcaseMode, showcaseItemIds,
                                        showcaseAssets)
    /\ inViewFired' = StillMounted(inViewFired, isLoading,
                         displayedAssetsOf(showcaseMode, showcaseAssets', assets'))
    /\ UNCHANGED <<lightbox, props, currentOffset, isLoading>>

\* The state loadAssets sets after its page request has returned rawAssets,
\* with the render and the showcase effect that follow.
PageFetched(i, rawAssets) ==
    /\ assets' = assets \o rawAssets
    /\ canLoadMore' = NextCanLoadMore(rawAssets)
    /\ isLoading' = IF loads[i].wasEmpty THEN FALSE ELSE isLoading
    /\ loads' = [loads EXCEPT ![i].phase = "done", ![i].rawAssets = rawAssets]
    /\ showcaseAssets' = ShowcaseEffect(assets', showcaseMode, showcaseItemIds,
                                        showcaseAssets)
    /\ inViewFired' = StillMounted(inViewFired, isLoading',
                         displayedAssetsOf(showcaseMode, showcaseAssets', assets'))
    /\ UNCHANGED <<lightbox, props, currentOffset>>

\* await fetchOpenseaAssets(...) / fetchOpenseaAssetsByContract(...) resolves
\* with a page of len assets.
FetchDone(i, len) ==
    /\ i \in 1..Len(loads)
    /\ loads[i].phase = "fetching"
    /\ PageFetched(i, ApiPage(loads[i].resolvedOwner, loads[i].offset, len))

\* ------------------------------------------------------------------ next

Next ==
    \/ \E owner \in Owners : ChangeOwner(owner)
    \/ ToggleHasLoadMoreButton
    \/ ToggleShowcaseMode
    \/ \E itemIds \in IdLists \cup {Absent} : SetShowcaseItemIds(itemIds)
    \/ \E k \in 1..(MaxLoads * OPENSEA_API_OFFSET) : SentinelInView(k)
    \/ \E k1, k2 \in 1..(MaxLoads * OPENSEA_API_OFFSET) : SentinelsInViewTogether(k1, k2)
    \/ \E k \in 1..(MaxLoads * OPENSEA_API_OFFSET) : SentinelInViewIgnored(k)
    \/ LoadMoreClick
    \/ \E i \in 1..MaxLoads : ResolveDone(i)
    \/ \E i \in 1..MaxLoads : ResolveFail(i)
    \/ \E i \in 1..MaxLoads : FetchFail(i)
    \/ \E i \in 1..MaxLoads, len \in 0..OPENSEA_API_OFFSET : FetchDone(i, len)

Spec == Init /\ [][Next]_vars

\* The component when no remote call fails and every remote call returns:
\* each pending await of each load is eventually resumed.
NextAllSucceed ==
    \/ \E owner \in Owners : ChangeOwner(owner)
    \/ ToggleHasLoadMoreButton
    \/ ToggleShowcaseMode
    \/ \E itemIds \in IdLists \cup {Absent} : SetShowcaseItemIds(itemIds)
    \/ \E k \in 1..(MaxLoads * OPENSEA_API_OFFSET) : SentinelInView(k)
    \/ \E k1, k2 \in 1..(MaxLoads * OPENSEA_API_OFFSET) : SentinelsInViewTogether(k1, k2)
    \/ \E k \in 1..(MaxLoads * OPENSEA_API_OFFSET) : SentinelInViewIgnored(k)
    \/ LoadMoreClick
    \/ \E i \in 1..MaxLoads : ResolveDone(i)
    \/ \E i \in 1..MaxLoads, len \in 0..OPENSEA_API_OFFSET : FetchDone(i, len)

FairSpec ==
    /\ Init
    /\ [][NextAllSucceed]_vars
    /\ \A i \in 1..MaxLoads :
          /\ WF_vars(ResolveDone(i))
          /\ WF_vars(\E len \in 0..OPENSEA_API_OFFSET : FetchDone(i, len))

\* -------------------------------------------------------------- lightbox

\* The state of the paginated loader, which no lightbox step touches.
gallery == <<props, assets, showcaseAssets, currentOffset, canLoadMore,
             isLoading, loads, inViewFired>>

Keys == {"ArrowLeft", "ArrowRight", "Escape", "Enter"}

\* `#lightbox-${index}`
LightboxHash(index) == "#lightbox-" \o ToString(index)

\* Fragments the page can be opened with: none, or the one left in the URL
\* by a lightbox that was open when the page was reloaded or linked to.
InitialHashes == {"", LightboxHash(0)}

\* window.location.hash.includes('lightbox-'), over the fragments that occur.
IncludesLightbox(h) ==
    h \in {"#lightbox-untarget"} \cup { LightboxHash(n) : n \in 0..(MaxLightboxIndex + 1) }

\* hasActiveLightbox
hasActiveLightbox == IncludesLightbox(hash) /\ hash # "#lightbox-untarget"

\* The component mounted on a page with or without a lightbox fragment.
LightboxInit == Mounted /\ hash \in InitialHashes

\* A click on the item at position k of the grid (index k - 1):
\* setLightboxIndex(index), and the link target `#lightbox-${index}`.
OpenLightbox(k) ==
    /\ GridRendered
    /\ k \in 1..Len(displayedAssets)
    /\ lightboxIndex' = k - 1
    /\ hash' = LightboxHash(k - 1)
    /\ UNCHANGED gallery

\* The lightbox overlay's own close control: the fragment is set to
\* '#lightbox-untarget' without the component's handler being involved.
CloseLightbox ==
    /\ hasActiveLightbox
    /\ hash' = "#lightbox-untarget"
    /\ UNCHANGED <<gallery, lightboxIndex>>

decreaseLightboxIndex ==
    IF lightboxIndex = 0 THEN UNCHANGED lightbox
    ELSE /\ lightboxIndex' = lightboxIndex - 1
         /\ hash' = LightboxHash(lightboxIndex - 1)

increaseLightboxIndex ==
    IF lightboxIndex = Len(assets) - 1 THEN UNCHANGED lightbox
    ELSE /\ lightboxIndex < MaxLightboxIndex
         /\ lightboxIndex' = lightboxIndex + 1
         /\ hash' = LightboxHash(lightboxIndex + 1)

\* switch (evt.key) of handleKeydownEvent
KeySwitch(key) ==
    CASE key = "ArrowLeft"  -> decreaseLightboxIndex
      [] key = "ArrowRight" -> increaseLightboxIndex
      [] key = "Escape"     -> hash' = "#lightbox-untarget" /\ UNCHANGED lightboxIndex
      [] OTHER              -> UNCHANGED lightbox

\* Mutant of handleKeydownEvent: the keys act whatever the fragment is.
handleKeydownEvent_Unguarded(key) ==
    /\ KeySwitch(key)
    /\ UNCHANGED gallery

\* handleKeydownEvent, the document's keydown listener; the listener in
\* place is the one of the last render (effect on [assets, lightboxIndex]).
handleKeydownEvent(key) ==
    /\ IF ~hasActiveLightbox THEN UNCHANGED lightbox ELSE KeySwitch(key)
    /\ UNCHANGED gallery

\* The component with its lightbox, the gallery paging by infinite scroll
\* (hasLoadMoreButton stays off) for one owner with calls that return: the
\* showcase props, the next-page signal, the continuations of loadAssets,
\* the item clicks, the key presses and the overlay's close control.
LightboxNext ==
    \/ ToggleShowcaseMode
    \/ \E itemIds \in IdLists \cup {Absent} : SetShowcaseItemIds(itemIds)
    \/ \E k \in 1..(MaxLoads * OPENSEA_API_OFFSET) : SentinelInView(k)
    \/ \E i \in 1..MaxLoads : ResolveDone(i)
    \/ \E i \in 1..MaxLoads, len \in 0..OPENSEA_API_OFFSET : FetchDone(i, len)
    \/ \E k \in 1..(MaxLoads * OPENSEA_API_OFFSET) : OpenLightbox(k)
    \/ \E key \in Keys : handleKeydownEvent(key)
    \/ CloseLightbox

LightboxSpec == LightboxInit /\ [][LightboxNext]_vars

\* ---------------------------------------------------------------- claims

\* Pages returned to the first n loads, concatenated in issue order.
RECURSIVE PagesInFetchOrder(_)
PagesInFetchOrder(n) ==
    IF n = 0 THEN <<>> ELSE PagesInFetchOrder(n - 1) \o loads[n].rawAssets

Succeeded(i) == loads[i].phase = "done"
Failed(i) == loads[i].phase = "failed"
AllLoadsSucceeded == \A i \in 1..Len(loads) : Succeeded(i)

\* Load i completes successfully in this step.
Completes(i) == loads[i].phase = "fetching" /\ loads'[i].phase = "done"

\* C1: when every load has succeeded and none is outstanding, the
\* accumulated list is the concatenation of the returned pages in the order
\* the loads were issued.
C1_ListIsPagesInFetchOrder ==
    AllLoadsSucceeded => assets = PagesInFetchOrder(Len(loads))

\* C2: while a load is in flight no step changes the offset cursor (a
\* next-page request is dropped, so no second fetch goes out).
C2_NoAdvanceWhileInFlight ==
    [][InFlight # {} => currentOffset' = currentOffset]_vars

\* Some completed load returned fewer assets than a page.
ExhaustionSeen ==
    \E i \in 1..Len(loads) :
        Succeeded(i) /\ Len(loads[i].rawAssets) < OPENSEA_API_OFFSET

\* C3: once a completed load has returned a short page, no step advances
\* the offset cursor (every later next-page signal is a no-op).
C3_NoAdvanceAfterExhaustion ==
    [][ExhaustionSeen => currentOffset' = currentOffset]_vars

\* C4: a change of the owner resets the list and the cursor, and the load it
\* issues asks for offset 0.
C4_OwnerChangeResets ==
    [][ownerAddress' # ownerAddress =>
          /\ Len(assets') = 0
          /\ currentOffset' = 0
          /\ loads'[Len(loads')].offset = 0]_vars

\* C5: when a load completes, canLoadMore is true iff its page is full, and
\* after a short page the load-more button is not rendered.
C5_HasMoreIffFullPage ==
    [][\A i \in 1..Len(loads) :
          Completes(i) =>
            /\ canLoadMore' = (Len(loads'[i].rawAssets) = OPENSEA_API_OFFSET)
            /\ Len(loads'[i].rawAssets) < OPENSEA_API_OFFSET
                  => ~LoadMoreButtonShown']_vars

\* C5 witness: a full page, then a short one, with the button option on.
C5_FullThenShortPage ==
    /\ Len(loads) = 2
    /\ Succeeded(1) /\ Len(loads[1].rawAssets) = OPENSEA_API_OFFSET
    /\ Succeeded(2) /\ Len(loads[2].rawAssets) = 1
    /\ Len(assets) = OPENSEA_API_OFFSET + 1
    /\ hasLoadMoreButton /\ ~canLoadMore /\ ~LoadMoreButtonShown

\* C6: a step issues a load (one) exactly when it changes the owner or the
\* offset cursor; a step that changes other props only leaves the list, the
\* cursor, canLoadMore and the loads alone.
C6_LoadIffOwnerOrOffsetChanges ==
    [][/\ (Len(loads') # Len(loads))
            <=> (ownerAddress' # ownerAddress \/ currentOffset' # currentOffset)
       /\ Len(loads') \in {Len(loads), Len(loads) + 1}
       /\ (props' # props /\ ownerAddress' = ownerAddress)
            => UNCHANGED <<assets, currentOffset, canLoadMore, loads>>]_vars

\* C6 witness: every modelled flag has been changed after a page was loaded,
\* and the mount's load is still the only one.
C6_FlagsChangedOneLoad ==
    /\ Len(loads) = 1 /\ Succeeded(1) /\ Len(assets) = OPENSEA_API_OFFSET
    /\ showcaseMode /\ showcaseItemIds.isArray /\ hasLoadMoreButton
    /\ Len(showcaseAssets) > 0

\* C7: the loader is shown only while the accumulated list is empty.
C7_LoadingOnlyWhenEmpty == isLoading => Len(assets) = 0

\* C7 witness: a load that started with a non-empty list is in flight and
\* the loader is not shown.
C7_SilentNextPage ==
    \E i \in InFlight : ~loads[i].wasEmpty /\ ~isLoading /\ Len(assets) > 0

OwnerNeverChanged ==
    \A i \in 1..Len(loads) : loads[i].ownerAddress = loads[1].ownerAddress

Range(seq) == { seq[k] : k \in 1..Len(seq) }

\* The subsequence of list whose composite key is in idSet, in list order.
RECURSIVE AllowedSubsequence(_, _)
AllowedSubsequence(list, idSet) ==
    IF Len(list) = 0 THEN <<>>
    ELSE (IF ItemId(Head(list)) \in idSet THEN <<Head(list)>> ELSE <<>>)
         \o AllowedSubsequence(Tail(list), idSet)

\* C9: in showcase mode with an allow-list, the displayed list is the
\* subsequence of the accumulated list whose keys are in the allow-list, in
\* accumulated-list order.
C9_DisplayedIsAllowedSubsequence ==
    (showcaseMode /\ showcaseItemIds.isArray)
        => displayedAssets = AllowedSubsequence(assets, Range(showcaseItemIds.items))

\* C9 witness: a proper, non-empty selection of two assets shown in the
\* reverse of the order in which the allow-list names them.
C9_FilteredAgainstIdOrder ==
    /\ showcaseMode /\ showcaseItemIds.isArray
    /\ Len(displayedAssets) = 2 /\ Len(assets) > 2
    /\ \E a, b \in 1..Len(showcaseItemIds.items) :
          /\ a < b
          /\ ItemId(displayedAssets[1]) = showcaseItemIds.items[b]
          /\ ItemId(displayedAssets[2]) = showcaseItemIds.items[a]

\* C10: showcase mode without an allow-list displays nothing.
C10_NothingWithoutAllowList ==
    (showcaseMode /\ ~showcaseItemIds.isArray) => Len(displayedAssets) = 0

\* Load i has sent its page request (fetchOpenseaAssets has been called).
PageRequested(i) == loads[i].phase \in {"fetching", "done"} \/ loads[i].resolvedOwner # ""

\* C12: a load for an ENS name starts with the resolution and no page
\* request; its page request goes out only in the step in which the
\* resolution resolves, with the resolved address and the offset the load
\* was called with; the mount's load asks for offset 0.
C12_ResolveBeforePageRequest ==
    /\ [](/\ loads[1].offset = 0
          /\ \A i \in 1..Len(loads) :
                isEnsDomain(loads[i].ownerAddress) =>
                  /\ loads[i].phase = "resolving" => loads[i].resolvedOwner = ""
                  /\ PageRequested(i) =>
                        /\ loads[i].resolvedOwner = resolveEnsDomain(loads[i].ownerAddress)
                        /\ loads[i].resolvedOwner # loads[i].ownerAddress)
    /\ [][\A i \in 1..Len(loads') :
            (isEnsDomain(loads'[i].ownerAddress) /\ loads'[i].phase = "fetching")
              => /\ i <= Len(loads)
                 /\ loads[i].phase \in {"resolving", "fetching"}
                 /\ loads'[i].offset = loads[i].offset
                 /\ loads'[i].ownerAddress = loads[i].ownerAddress]_vars

\* C12 witness: the mount's load for vitalik.eth has resolved and its page
\* request for the resolved address, offset 0, is pending.
C12_ResolvedThenRequested ==
    /\ loads[1].ownerAddress = "vitalik.eth"
    /\ loads[1].phase = "fetching"
    /\ loads[1].resolvedOwner = "0x2"
    /\ loads[1].offset = 0

\* An InView callback that advances the cursor can fire.
SentinelCanAdvance ==
    \/ \E k \in 1..(MaxLoads * OPENSEA_API_OFFSET) : ENABLED SentinelInView(k)
    \/ \E k1, k2 \in 1..(MaxLoads * OPENSEA_API_OFFSET) :
          ENABLED SentinelsInViewTogether(k1, k2)

\* C13: a sentinel can advance the cursor only with hasLoadMoreButton off,
\* the button can only with hasLoadMoreButton on and canLoadMore true, and
\* in no state can both.
C13_TriggersExclusive ==
    /\ SentinelCanAdvance => ~hasLoadMoreButton
    /\ (ENABLED LoadMoreClick) => (hasLoadMoreButton /\ canLoadMore)
    /\ LoadMoreButtonShown => (hasLoadMoreButton /\ canLoadMore)
    /\ ~(SentinelCanAdvance /\ ENABLED LoadMoreClick)

\* C13 witness: the button is there and can be clicked while a sentinel
\* that has not triggered is in the grid.
C13_ButtonWithUnfiredSentinel ==
    /\ ENABLED LoadMoreClick
    /\ \E k \in 1..Len(displayedAssets) :
          isLastItemInPage(k) /\ displayedAssets[k].id \notin inViewFired

\* C14: the cursor is a non-negative multiple of the page size; a sentinel
\* callback and a button click each raise it by one page size (two
\* callbacks applied together by two); no step lowers it.
C14_OffsetMultipleAndMonotone ==
    /\ [](currentOffset >= 0 /\ currentOffset % OPENSEA_API_OFFSET = 0)
    /\ [][/\ currentOffset' >= currentOffset
          /\ LoadMoreClick => currentOffset' = currentOffset + OPENSEA_API_OFFSET
          /\ (\E k \in 1..Len(displayedAssets) : SentinelInView(k))
                => currentOffset' = currentOffset + OPENSEA_API_OFFSET
          /\ (\E k1, k2 \in 1..Len(displayedAssets) : SentinelsInViewTogether(k1, k2))
                => currentOffset' = currentOffset + 2 * OPENSEA_API_OFFSET
          /\ currentOffset' # currentOffset
                => \/ LoadMoreClick
                   \/ \E k \in 1..Len(displayedAssets) : SentinelInView(k)
                   \/ \E k1, k2 \in 1..Len(displayedAssets) :
                          SentinelsInViewTogether(k1, k2)]_vars

\* C14 witness: the cursor after two next-page triggers.
C14_TwoPagesOn ==
    currentOffset = 2 * OPENSEA_API_OFFSET /\ Len(loads) = 3

\* C15: the step in which a load fails changes nothing but that load's
\* progress (list, canLoadMore and cursor stay), and a failed load stays as
\* it is: after a failed resolution no page request is made.
C15_FailureChangesNothing ==
    [][/\ (\E i \in 1..Len(loads) : ~Failed(i) /\ Failed(i)')
            => UNCHANGED <<assets, showcaseAssets, canLoadMore, currentOffset>>
       /\ \A i \in 1..Len(loads) : Failed(i) => loads'[i] = loads[i]
       /\ \A i \in 1..Len(loads) :
            (loads[i].phase = "resolving" /\ Failed(i)') => ~PageRequested(i)']_vars

\* C15 witness: the load of the second page has failed; the first page, the
\* has-more flag and the advanced cursor are as they were.
C15_SecondPageFailed ==
    /\ Len(loads) = 2 /\ Succeeded(1) /\ Failed(2)
    /\ Len(assets) = OPENSEA_API_OFFSET /\ canLoadMore
    /\ currentOffset = OPENSEA_API_OFFSET /\ loads[2].offset = currentOffset

\* C18: while the owner has not changed, the i-th load asks for offset
\* (i - 1) * page size.
C18_OffsetsGapFree ==
    OwnerNeverChanged =>
        \A i \in 1..Len(loads) : loads[i].offset = (i - 1) * OPENSEA_API_OFFSET

\* A last-in-page item of the displayed list has not triggered yet.
UnfiredSentinel ==
    \E k \in 1..Len(displayedAssets) :
        isLastItemInPage(k) /\ displayedAssets[k].id \notin inViewFired

\* C19: with canLoadMore true, no load pending and the grid rendered, a
\* next-page trigger is there: the button, or with infinite scroll a
\* sentinel that has not triggered.
C19_TriggerAvailable ==
    (canLoadMore /\ InFlight = {} /\ GridRendered)
        => IF hasLoadMoreButton THEN LoadMoreButtonShown ELSE UnfiredSentinel

\* Occurrences of an asset in a list.
Occurrences(list, asset) == Cardinality({ k \in 1..Len(list) : list[k] = asset })

RECURSIVE OccurrencesInPages(_, _)
OccurrencesInPages(n, asset) ==
    IF n = 0 THEN 0
    ELSE OccurrencesInPages(n - 1, asset) + Occurrences(loads[n].rawAssets, asset)

\* C20: when no remote call fails and each returns, every load issued
\* eventually completes; the list holds each returned page once (each asset
\* as often as the returned pages hold it); the loader, once shown, is
\* eventually taken down and is down whenever no load is pending.
C20_EveryLoadAppendedLoaderCleared ==
    /\ \A i \in 1..MaxLoads : (Len(loads) >= i) ~> (Len(loads) >= i /\ Succeeded(i))
    /\ [](\A asset \in Range(assets) \cup Range(PagesInFetchOrder(Len(loads))) :
             Occurrences(assets, asset) = OccurrencesInPages(Len(loads), asset))
    /\ isLoading ~> ~isLoading
    /\ [](InFlight = {} => ~isLoading)

\* C20 witness: three loads, two of them for the same page, have all
\* completed with assets and the loader is down.
C20_AllAppended ==
    /\ Len(loads) = 3 /\ AllLoadsSucceeded /\ ~isLoading
    /\ \A i \in 1..3 : Len(loads[i].rawAssets) > 0
    /\ \E asset \in Range(assets) : Occurrences(assets, asset) = 2

\* C11: while the lightbox is active on a non-empty accumulated list,
\* lightboxIndex is at least 0 and at most Len(assets) - 1.
C11_IndexWithinList ==
    (hasActiveLightbox /\ Len(assets) > 0)
        => (lightboxIndex >= 0 /\ lightboxIndex <= Len(assets) - 1)

\* C16: lightboxIndex changes only in a step that opens an item or in an
\* ArrowLeft/ArrowRight press made while the lightbox is active; a key
\* pressed while it is inactive changes neither index nor fragment; Escape,
\* the completion of a load and the showcase props leave the index as it
\* is; an inactive lightbox becomes active only by opening an item.
C16_IndexChangedOnlyByOpenOrNavigate ==
    [][ /\ lightboxIndex' # lightboxIndex
            => \/ \E k \in 1..(MaxLoads * OPENSEA_API_OFFSET) : OpenLightbox(k)
               \/ /\ hasActiveLightbox
                  /\ \/ handleKeydownEvent("ArrowLeft")
                     \/ handleKeydownEvent("ArrowRight")
        /\ \A key \in Keys :
             (~hasActiveLightbox /\ handleKeydownEvent(key)) => UNCHANGED lightbox
        /\ handleKeydownEvent("Escape") => UNCHANGED lightboxIndex
        /\ (\E i \in 1..MaxLoads, len \in 0..OPENSEA_API_OFFSET : FetchDone(i, len))
            => UNCHANGED lightbox
        /\ (ToggleShowcaseMode \/ \E itemIds \in IdLists \cup {Absent} :
                                     SetShowcaseItemIds(itemIds))
            => UNCHANGED lightbox
        /\ (~hasActiveLightbox /\ hasActiveLightbox')
            => \E k \in 1..(MaxLoads * OPENSEA_API_OFFSET) : OpenLightbox(k)
      ]_vars

\* C16 witness: the lightbox was dismissed at index 1; a further page and
\* the showcase filter have come in since and the index is still 1.
C16_DismissedIndexKept ==
    /\ hash = "#lightbox-untarget"
    /\ lightboxIndex = 1
    /\ Len(assets) = 2 * OPENSEA_API_OFFSET
    /\ showcaseMode /\ Len(showcaseAssets) > 0

\* C17: in showcase mode, ArrowRight pressed while the lightbox is active on
\* the last item of the displayed list changes neither index nor fragment.
C17_NextStopsAtDisplayedEnd ==
    [][ ( /\ showcaseMode
          /\ hasActiveLightbox
          /\ lightboxIndex = Len(displayedAssets) - 1
          /\ handleKeydownEvent("ArrowRight") )
        => UNCHANGED lightbox ]_vars

====
